---- MODULE Spec2Model ----
(***************************************************************************)
(* Subtitle timing and synchronisation engine of YTStudioAI.               *)
(*                                                                         *)
(* Times are fixed-point: one unit is one microsecond, so the code's       *)
(* float seconds 0.20, 0.05, 0.98 x ... become 200000, 50000, (98 x) / 100 *)
(* and the *_MS settings are multiplied by 1000.  Divisions round down;    *)
(* the code's tolerances 1e-6 and 1e-4 are 1 and 100 units, 1e-9 is 0.     *)
(*                                                                         *)
(* Reading of the sources.  In scripts/src/subtitle_timing.py the helper   *)
(* _map_local_to_global (lines 230-241) is written at column 0 in the      *)
(* middle of build_chunk_timeline, and in scripts/src/renderer.py the      *)
(* subtitle block (lines 135-153) is written at column 0 in the middle of  *)
(* _render_video_generic.  Both are modelled as what they are part of: the *)
(* helper as the nested function of build_chunk_timeline, followed by the  *)
(* placement loop (lines 244-286) that closes over windows, usable, ant,   *)
(* off and max_gap; the subtitle block as statements of the renderer.      *)
(***************************************************************************)
EXTENDS Integers, Sequences, FiniteSets, TLC

\* ------------------------------------------------------------------ units

Ms(n) == n * 1000
Sec(n) == n * 1000 * 1000

Max(a, b) == IF a >= b THEN a ELSE b
Min(a, b) == IF a <= b THEN a ELSE b
Abs(a) == IF a >= 0 THEN a ELSE 0 - a

RECURSIVE SumSeq(_)
SumSeq(s) == IF s = << >> THEN 0 ELSE s[1] + SumSeq(Tail(s))

Last(s) == s[Len(s)]

\* floor(a * b / c) for a, b >= 0 and c > 0, without leaving 32 bits: the
\* product is built digit by digit of b in base 16, reduced modulo c.
RECURSIVE MulDivQR(_, _, _)
MulDivQR(a, b, c) ==
    IF b = 0 THEN <<0, 0>>
    ELSE LET h == MulDivQR(a, b \div 16, c)
             d == b % 16
             x == 16 * h[2] + (a % c) * d
         IN  <<16 * h[1] + (a \div c) * d + (x \div c), x % c>>

MulDiv(a, b, c) ==
    IF a < 46341 /\ b < 46341 THEN (a * b) \div c ELSE MulDivQR(a, b, c)[1]

\* ------------------------------------------------------------------ texts

\* A text is its surrounding whitespace (pad characters) and the lengths of its
\* whitespace-separated words, single spaces between them.
Text(pad, words) == [pad |-> pad, words |-> words]

\* len(str(c))
StrLen(t) ==
    t.pad + SumSeq(t.words) + (IF Len(t.words) > 0 THEN Len(t.words) - 1 ELSE 0)

\* str(c).strip()
Strip(t) == IF t.words = << >> THEN Text(0, << >>) ELSE Text(0, t.words)

IsBlank(t) == t.words = << >>

\* ------------------------------------------------------- configuration

\* TimingConfig(): milliseconds for the *_ms fields, microseconds for the
\* chunk durations 0.7, 1.2, 1.5 and 3.0 s.
TimingConfig ==
    [short_min_chunk |-> Ms(700), short_max_chunk |-> Ms(1200),
     long_min_chunk |-> Ms(1500), long_max_chunk |-> Ms(3000),
     anticipation_ms |-> 100, offset_ms |-> 0, max_gap_ms |-> 180]

\* A value of the process environment: unset, or a string that is empty,
\* an integer literal (n), a decimal literal (n microseconds) or not a number.
Unset == [k |-> "unset", n |-> 0]
EnvEmpty == [k |-> "empty", n |-> 0]
EnvJunk == [k |-> "junk", n |-> 0]
EnvInt(n) == [k |-> "int", n |-> n]
EnvFloat(us) == [k |-> "float", n |-> us]

NoEnv ==
    [AO_SUB_AUTOSYNC |-> Unset, AO_SUB_AUTO_OFFSET |-> Unset,
     AO_SUB_ANTICIPATION_MS |-> Unset, AO_SUB_OFFSET_MS |-> Unset,
     AO_SUB_MAX_GAP_MS |-> Unset,
     AO_SUB_SHORT_MIN |-> Unset, AO_SUB_SHORT_MAX |-> Unset,
     AO_SUB_LONG_MIN |-> Unset, AO_SUB_LONG_MAX |-> Unset,
     AO_SUB_MAX_CHARS |-> Unset, AO_SUB_FILLER |-> Unset]

\* a variant that adds the parsed value to the default instead of replacing it
_get_int_env_Add(v, default) ==
    IF v.k = "int" THEN default + v.n ELSE default

_get_int_env(v, default) ==
    IF v.k = "int" THEN v.n ELSE default

_get_float_env(v, default) ==
    CASE v.k = "int" -> Sec(v.n)
      [] v.k = "float" -> v.n
      [] OTHER -> default

\* os.getenv(name, default).strip().lower() in {"1", "true", "yes"}; the
\* flag is set as the integer literal 1 or 0.
EnvFlag(v, default) ==
    IF v.k = "unset" THEN default ELSE (v.k = "int" /\ v.n = 1)

\* ENV overrides, written into the configuration object
EnvOverrides(cfg, e) ==
    [anticipation_ms |-> _get_int_env(e.AO_SUB_ANTICIPATION_MS, cfg.anticipation_ms),
     offset_ms |-> _get_int_env(e.AO_SUB_OFFSET_MS, cfg.offset_ms),
     max_gap_ms |-> _get_int_env(e.AO_SUB_MAX_GAP_MS, cfg.max_gap_ms),
     short_min_chunk |-> _get_float_env(e.AO_SUB_SHORT_MIN, cfg.short_min_chunk),
     short_max_chunk |-> _get_float_env(e.AO_SUB_SHORT_MAX, cfg.short_max_chunk),
     long_min_chunk |-> _get_float_env(e.AO_SUB_LONG_MIN, cfg.long_min_chunk),
     long_max_chunk |-> _get_float_env(e.AO_SUB_LONG_MAX, cfg.long_max_chunk)]

\* ------------------------------------------------------------- collection

Item(scene_id, text) == [scene_id |-> scene_id, text |-> text]

RECURSIVE GlobalItems(_)
GlobalItems(chunks) ==
    IF chunks = << >> THEN << >>
    ELSE (IF IsBlank(Head(chunks)) THEN << >> ELSE <<Item(1, Head(chunks))>>)
         \o GlobalItems(Tail(chunks))

RECURSIVE SceneChunkItems(_, _)
SceneChunkItems(scene_id, chunks) ==
    IF chunks = << >> THEN << >>
    ELSE (IF IsBlank(Head(chunks)) THEN << >>
          ELSE <<Item(scene_id, Strip(Head(chunks)))>>)
         \o SceneChunkItems(scene_id, Tail(chunks))

\* a scene whose scene_id key is missing is written scene_id = 0
RECURSIVE SceneItems(_, _)
SceneItems(scenes, si) ==
    IF si > Len(scenes) THEN << >>
    ELSE LET scene == scenes[si]
             scene_id == IF scene.scene_id = 0 THEN si ELSE scene.scene_id
         IN  SceneChunkItems(scene_id, scene.subtitle_chunks)
             \o SceneItems(scenes, si + 1)

_collect_chunks(d) ==
    IF d.subtitle_chunks # << >> THEN GlobalItems(d.subtitle_chunks)
    ELSE IF d.narration_chunks # << >> THEN GlobalItems(d.narration_chunks)
    ELSE SceneItems(d.scenes, 1)

\* ---------------------------------------------------------- speech windows

Seg(s, e) == [start |-> s, end |-> e]

FullWindow(duration_sec) == <<Seg(0, Max(Ms(100), duration_sec))>>

RECURSIVE WideSegments(_)
WideSegments(segs) ==
    IF segs = << >> THEN << >>
    ELSE LET it == Head(segs)
         IN  (IF it.end - it.start >= Ms(100)
              THEN <<Seg(Max(0, it.start), Max(0, it.end))>> ELSE << >>)
             \o WideSegments(Tail(segs))

\* a variant that keeps the windows as given, without the clamp to dur
ClampToDuration_None(out, dur) == out

RECURSIVE ClampToDuration(_, _)
ClampToDuration(out, dur) ==
    IF out = << >> THEN << >>
    ELSE LET w == Head(out)
         IN  (IF w.start >= dur THEN << >> ELSE <<Seg(w.start, Min(dur, w.end))>>)
             \o ClampToDuration(Tail(out), dur)

_get_speech_windows(d, e, duration_sec) ==
    IF ~EnvFlag(e.AO_SUB_AUTOSYNC, FALSE) THEN FullWindow(duration_sec)
    ELSE IF d.speech_segments = << >> THEN FullWindow(duration_sec)
    ELSE LET out == WideSegments(d.speech_segments)
             dur == Max(Ms(100), duration_sec)
             out2 == ClampToDuration(out, dur)
         IN  IF out = << >> THEN FullWindow(duration_sec)
             ELSE IF out2 = << >> THEN <<Seg(0, dur)>> ELSE out2

\* -------------------------------------------------------------- allocation

FLOOR_DUR == Ms(200)
\* 1e-4 s, the tolerance of the final correction
EPS == 100
END_SLACK == Ms(50)
REBALANCE_ROUNDS == 6

\* a variant without the upper cap
_clamp_NoMax(v, a, b) == Max(a, v)

_clamp(v, a, b) == Max(a, Min(b, v))

\* weights = [max(1, len(t)) for _, t in items]
Weights(items) == [i \in 1..Len(items) |-> Max(1, StrLen(items[i].text))]

\* durations = [usable * (w / total_w) for w in weights], clamped
InitialDurations(items, usable, min_d, max_d) ==
    LET weights == Weights(items)
        total_w == SumSeq(weights)
    IN  [i \in 1..Len(weights) |->
            _clamp(MulDiv(usable, weights[i], total_w), min_d, max_d)]

\* a variant that applies the floor without scaling
ScaleTo_NoScale(ds, target, cur) ==
    [i \in 1..Len(ds) |-> Max(FLOOR_DUR, ds[i])]

\* ds = [max(0.20, d * scale) for d in ds] with scale = target / cur
ScaleTo(ds, target, cur) ==
    [i \in 1..Len(ds) |-> Max(FLOOR_DUR, MulDiv(ds[i], target, cur))]

\* the "too short" loop: up to six rounds of adding the remainder in
\* proportion to each chunk's headroom below max_d
RECURSIVE Distribute(_, _, _, _, _)
Distribute(ds, remaining, target, max_d, rounds) ==
    IF rounds = 0 \/ remaining <= 1 THEN ds
    ELSE LET headroom == [i \in 1..Len(ds) |-> Max(0, max_d - ds[i])]
             hr_sum == SumSeq(headroom)
         IN  IF hr_sum <= 1
             THEN [i \in 1..Len(ds) |-> ds[i] + (remaining \div Len(ds))]
             ELSE LET ds2 == [i \in 1..Len(ds) |->
                                 Min(max_d, ds[i] + MulDiv(remaining, headroom[i], hr_sum))]
                  IN  Distribute(ds2, Max(0, target - SumSeq(ds2)), target, max_d,
                                 rounds - 1)

rebalance_to_total(ds, target, max_d) ==
    LET cur == SumSeq(ds)
        ds1 == IF cur > target THEN ScaleTo(ds, target, cur) ELSE ds
        cur1 == SumSeq(ds1)
        ds2 == IF cur1 < target
               THEN Distribute(ds1, target - cur1, target, max_d, REBALANCE_ROUNDS)
               ELSE ds1
        cur2 == SumSeq(ds2)
    IN  IF cur <= 0 THEN ds
        ELSE IF Abs(cur2 - target) > EPS /\ cur2 > 0 THEN ScaleTo(ds2, target, cur2)
        ELSE ds2

\* --------------------------------------------------------------- placement

\* Maps a local timeline position (0..usable) into real time across the windows
RECURSIVE MapFrom(_, _, _)
MapFrom(windows, k, remaining) ==
    IF k > Len(windows) THEN Last(windows).end
    ELSE LET s == windows[k].start
             e == windows[k].end
             wlen == Max(0, e - s)
         IN  IF wlen <= 0 THEN MapFrom(windows, k + 1, remaining)
             ELSE IF remaining <= wlen THEN s + remaining
             ELSE MapFrom(windows, k + 1, remaining - wlen)

_map_local_to_global(windows, local_t) == MapFrom(windows, 1, local_t)

\* max_end = usable + max(0.0, off) + 0.05
MaxEnd(usable, off) == usable + Max(0, off) + END_SLACK

\* if en > max_end: en = max_end
\* a variant that leaves the end time unbounded
BoundEnd_NoClamp(en, max_end) == en

BoundEnd(en, max_end) == IF en > max_end THEN max_end ELSE en

\* a variant that numbers the chunks from 1
TimelineEntry_OneBased(item, idx, times) ==
    [text |-> item.text,
     words |-> item.text.words,
     start |-> times.st,
     end |-> times.en,
     start_raw |-> times.st_raw,
     end_raw |-> times.en_raw,
     st_raw_local |-> times.st_raw_local,
     en_raw_local |-> times.en_raw_local,
     scene_id |-> item.scene_id,
     chunk_index |-> idx]

\* the dict appended to the timeline; idx is 1-based here, chunk_index is
\* the 0-based position of enumerate().  The local cursor positions of the
\* iteration are kept next to start_raw and end_raw.
TimelineEntry(item, idx, times) ==
    [text |-> item.text,
     words |-> item.text.words,
     start |-> times.st,
     end |-> times.en,
     start_raw |-> times.st_raw,
     end_raw |-> times.en_raw,
     st_raw_local |-> times.st_raw_local,
     en_raw_local |-> times.en_raw_local,
     scene_id |-> item.scene_id,
     chunk_index |-> idx - 1]

\* One iteration of the placement loop for chunk idx at local cursor t; p is
\* the record [windows, usable, ant, off, max_gap] of the enclosing call.
Place(items, durations, idx, t, timeline, p) ==
    LET prev_end == Last(timeline).end_raw
        t1 == IF timeline # << >> /\ t - prev_end > p.max_gap
              THEN prev_end + p.max_gap ELSE t
        st_raw_local == t1
        en_raw_local == Min(p.usable, t1 + durations[idx])
        st_raw == _map_local_to_global(p.windows, st_raw_local)
        en_raw == _map_local_to_global(p.windows, en_raw_local)
        st == Max(0, (st_raw - p.ant) + p.off)
        en == Max(st + FLOOR_DUR, en_raw + p.off)
    IN  TimelineEntry(items[idx], idx,
            [st |-> st, en |-> BoundEnd(en, MaxEnd(p.usable, p.off)),
             st_raw |-> st_raw, en_raw |-> en_raw,
             st_raw_local |-> st_raw_local, en_raw_local |-> en_raw_local])

RECURSIVE PlaceAll(_, _, _, _, _, _)
PlaceAll(items, durations, idx, t, timeline, p) ==
    IF idx > Len(items) THEN timeline
    ELSE LET entry == Place(items, durations, idx, t, timeline, p)
         IN  PlaceAll(items, durations, idx + 1, entry.en_raw_local,
                      Append(timeline, entry), p)

\* Remove helper fields
Public(entry) ==
    [text |-> entry.text, words |-> entry.words, start |-> entry.start,
     end |-> entry.end, scene_id |-> entry.scene_id,
     chunk_index |-> entry.chunk_index]

\* ---------------------------------------------------- build_chunk_timeline

\* The value of one invocation build_chunk_timeline(d, duration_sec,
\* video_type, cfg) under environment e: the configuration object as the call
\* leaves it, the intermediate values of the four passes, and the returned
\* timeline.  cfg is TimingConfig() when the caller passes none.
build_chunk_timeline(d, e, duration_sec, video_type, cfg_in) ==
    LET cfg == EnvOverrides(cfg_in, e)
        min_d == IF video_type = "long" THEN cfg.long_min_chunk ELSE cfg.short_min_chunk
        max_d == IF video_type = "long" THEN cfg.long_max_chunk ELSE cfg.short_max_chunk
        items == _collect_chunks(d)
        total == Max(Ms(100), duration_sec)
        windows == _get_speech_windows(d, e, total)
        widths == SumSeq([i \in 1..Len(windows) |->
                           Max(0, windows[i].end - windows[i].start)])
        window_total == IF widths = 0 THEN total ELSE widths
        usable == Max(Ms(100), MulDiv(window_total, 98, 100))
        durations == rebalance_to_total(InitialDurations(items, usable, min_d, max_d),
                                        usable, max_d)
        p == [windows |-> windows, usable |-> usable, ant |-> Ms(cfg.anticipation_ms),
              off |-> Ms(cfg.offset_ms), max_gap |-> Ms(cfg.max_gap_ms)]
        placed == PlaceAll(items, durations, 1, 0, << >>, p)
    IN  IF items = << >>
        THEN [cfg |-> cfg, min_d |-> min_d, max_d |-> max_d, items |-> items,
              total |-> total, windows |-> << >>, usable |-> 0, durations |-> << >>,
              ant |-> 0, off |-> 0, max_gap |-> 0,
              placed |-> << >>, timeline |-> << >>]
        ELSE [cfg |-> cfg, min_d |-> min_d, max_d |-> max_d, items |-> items,
              total |-> total, windows |-> windows, usable |-> usable,
              durations |-> durations,
              ant |-> p.ant, off |-> p.off, max_gap |-> p.max_gap,
              placed |-> placed, timeline |-> [i \in 1..Len(placed) |-> Public(placed[i])]]

\* ------------------------------------------------------ speech detection

\* end of the single segment returned when neither silence nor duration is
\* known (9999.0 s in the code): larger than every duration of the model
SENTINEL_END == 2147000000

DUR_UNKNOWN == 0 - 1

PADDING_SEC == Ms(50)

\* silences.append((max(0.0, stt), max(0.0, en))), ends[i] paired by index
RECURSIVE SilenceIntervals(_, _, _, _)
SilenceIntervals(starts, ends, dur, i) ==
    IF i > Len(starts) THEN << >>
    ELSE LET stt == starts[i]
             en == IF i <= Len(ends) THEN ends[i]
                   ELSE IF dur # DUR_UNKNOWN THEN dur ELSE stt
         IN  <<Seg(Max(0, stt), Max(0, en))>> \o SilenceIntervals(starts, ends, dur, i + 1)

\* silences.sort(key=lambda x: x[0]): stable insertion by start
RECURSIVE InsertByStart(_, _)
InsertByStart(sorted, x) ==
    IF sorted = << >> THEN <<x>>
    ELSE IF Last(sorted).start <= x.start THEN Append(sorted, x)
    ELSE Append(InsertByStart(SubSeq(sorted, 1, Len(sorted) - 1), x), Last(sorted))

RECURSIVE SortByStart(_)
SortByStart(s) ==
    IF s = << >> THEN << >>
    ELSE InsertByStart(SortByStart(SubSeq(s, 1, Len(s) - 1)), Last(s))

\* a variant that takes the end of the later silence when merging
RECURSIVE MergeSilences_TakeLast(_, _)
MergeSilences_TakeLast(silences, merged) ==
    IF silences = << >> THEN merged
    ELSE LET x == Head(silences)
         IN  IF merged = << >> \/ x.start > Last(merged).end + 1
             THEN MergeSilences_TakeLast(Tail(silences), Append(merged, x))
             ELSE MergeSilences_TakeLast(Tail(silences),
                    [merged EXCEPT ![Len(merged)].end = x.end])

\* merged[-1][1] = max(merged[-1][1], e) unless s > merged[-1][1] + 1e-6
RECURSIVE MergeSilences(_, _)
MergeSilences(silences, merged) ==
    IF silences = << >> THEN merged
    ELSE LET x == Head(silences)
         IN  IF merged = << >> \/ x.start > Last(merged).end + 1
             THEN MergeSilences(Tail(silences), Append(merged, x))
             ELSE MergeSilences(Tail(silences),
                    [merged EXCEPT ![Len(merged)].end = Max(@, x.end)])

\* Fala = complemento dos silencios
RECURSIVE Complement(_, _, _, _)
Complement(merged, cur, end_total, speech) ==
    IF merged = << >>
    THEN IF end_total > cur + 1 THEN Append(speech, Seg(cur, end_total)) ELSE speech
    ELSE LET x == Head(merged)
         IN  Complement(Tail(merged), Max(cur, x.end), end_total,
                        IF x.start > cur + 1 THEN Append(speech, Seg(cur, x.start))
                        ELSE speech)

Pad(seg, padding_sec) ==
    LET s2 == Max(0, seg.start - padding_sec)
    IN  Seg(s2, Max(s2 + Ms(50), seg.end + padding_sec))

\* detect_speech_segments on the silencedetect log (starts, ends) of a file of
\* duration dur (DUR_UNKNOWN when ffprobe fails)
detect_speech_segments(starts, ends, dur, padding_sec) ==
    LET silences == SilenceIntervals(starts, ends, dur, 1)
        merged == MergeSilences(SortByStart(silences), << >>)
        end_total == IF dur # DUR_UNKNOWN THEN dur ELSE Last(merged).end
    IN  IF silences = << >>
        THEN IF dur = DUR_UNKNOWN THEN <<Seg(0, SENTINEL_END)>>
             ELSE <<Seg(0, Max(Ms(100), dur))>>
        ELSE LET speech == Complement(merged, 0, end_total, << >>)
             IN  [i \in 1..Len(speech) |-> Pad(speech[i], padding_sec)]

detect_leading_silence_seconds(starts, ends, dur) ==
    LET segs == detect_speech_segments(starts, ends, dur, PADDING_SEC)
    IN  IF segs = << >> THEN 0 ELSE Max(0, segs[1].start)

\* int(round(x * 1000.0)) for x in microseconds: Python rounds halves to even
RoundToMs(x) ==
    LET q == x \div 1000
        r == x % 1000
    IN  IF r > 500 \/ (r = 500 /\ q % 2 = 1) THEN q + 1 ELSE q

\* ------------------------------------------------------------------ state

VARIABLES
    env,            \* os.environ: the AO_SUB_* settings of the process
    data,           \* the script data dict handed to the renderer and the builder
    duration_sec,   \* duration of the audio, microseconds
    audio,          \* the audio file: its silencedetect log and ffprobe duration
    cfgObj,         \* a TimingConfig object a caller keeps and passes again
    calls           \* the invocations of build_chunk_timeline so far, in order

vars == <<env, data, duration_sec, audio, cfgObj, calls>>

\* ----------------------------------------------------------------- bounds

MaxChunks == 3
MaxCalls == 2

SeqsUpTo(S, n) == UNION {[1..k -> S] : k \in 0..n}

T_blank == Text(1, << >>)
T_3 == Text(1, <<2>>)
T_9 == Text(0, <<4, 4>>)
T_10 == Text(0, <<4, 5>>)
T_40 == Text(0, <<9, 10, 9, 9>>)

Texts == {T_blank, T_3, T_9}

Data(sc, nc, scenes, segs) ==
    [subtitle_chunks |-> sc, narration_chunks |-> nc, scenes |-> scenes,
     speech_segments |-> segs]

Scene(scene_id, chunks) == [scene_id |-> scene_id, subtitle_chunks |-> chunks]

SceneLists ==
    {<<Scene(0, <<T_9>>)>>,
     <<Scene(7, <<T_3, T_blank>>), Scene(0, << >>), Scene(0, <<T_9, T_3>>)>>,
     <<Scene(0, <<T_blank>>)>>}

SegLists ==
    {<< >>,
     <<Seg(Sec(5), Sec(6))>>,
     <<Seg(0, Sec(1)), Seg(Sec(3), Sec(4))>>,
     <<Seg(Sec(5), Sec(6)), Seg(Sec(1), Sec(2))>>,
     <<Seg(Sec(5), Sec(6)), Seg(0, Sec(1))>>,
     <<Seg(Sec(1), Sec(1) + Ms(50))>>}

Durations == {0, Ms(300), Ms(1600), Sec(10)}

Envs ==
    {[NoEnv EXCEPT !.AO_SUB_AUTOSYNC = a, !.AO_SUB_OFFSET_MS = o,
                   !.AO_SUB_ANTICIPATION_MS = n] :
        a \in {Unset, EnvInt(1)},
        o \in {Unset, EnvInt(0 - 2000), EnvInt(300)},
        n \in {Unset, EnvInt(0)}}

\* the end-to-end scenario: lengths 10, 40, 10, 10, 10 over 20.0 s with
\* min = 0.5, max = 5.0, max_gap = 0.2
ScenarioChunks == <<T_10, T_40, T_10, T_10, T_10>>
ScenarioDuration == Sec(20)
ScenarioConfig ==
    [TimingConfig EXCEPT !.short_min_chunk = Ms(500), !.short_max_chunk = Ms(5000),
                         !.max_gap_ms = 200]

Audio(starts, ends, dur) == [starts |-> starts, ends |-> ends, dur |-> dur]

\* --------------------------------------------------------------- actions

\* env_before is the environment when the operation starts, env the one
\* build_chunk_timeline reads
CallRecord(fn, video_type, shared, d, e, cfg_in, out) ==
    [fn |-> fn, video_type |-> video_type, shared |-> shared, data |-> d,
     env_before |-> env, env |-> e,
     duration_sec |-> duration_sec, cfg_in |-> cfg_in, out |-> out]

\* A caller invokes build_chunk_timeline(data, duration_sec, video_type, cfg)
\* with its own configuration object (shared) or with none.
ApiCall(video_type, shared, limit) ==
    /\ Len(calls) < limit
    /\ LET cfg_in == IF shared THEN cfgObj ELSE TimingConfig
           out == build_chunk_timeline(data, env, duration_sec, video_type, cfg_in)
       IN  /\ calls' = Append(calls, CallRecord("build_chunk_timeline", video_type,
                                                shared, data, env, cfg_in, out))
           /\ cfgObj' = IF shared THEN out.cfg ELSE cfgObj
    /\ UNCHANGED <<env, data, duration_sec, audio>>

\* base_off = int(os.getenv("AO_SUB_OFFSET_MS", "0") or "0")
BaseOffParses(v) == v.k \in {"unset", "empty", "int"}
BaseOff(v) == IF v.k = "int" THEN v.n ELSE 0

\* The subtitle block of _render_video_generic.  Each of the two try blocks
\* either completes or raises (detect_ok, lead_ok): renderer.py imports
\* neither detect_speech_segments nor detect_leading_silence_seconds, and
\* running ffmpeg can fail; an exception is swallowed by the except clause.
_render_video_generic(fn, video_type, detect_ok, lead_ok) ==
    /\ Len(calls) < MaxCalls
    /\ LET autosync == EnvFlag(env.AO_SUB_AUTOSYNC, FALSE)
           data1 == IF ~autosync THEN data
                    ELSE IF detect_ok
                    THEN [data EXCEPT !.speech_segments =
                            detect_speech_segments(audio.starts, audio.ends, audio.dur,
                                                   PADDING_SEC)]
                    ELSE [data EXCEPT !.speech_segments = << >>]
           lead == detect_leading_silence_seconds(audio.starts, audio.ends, audio.dur)
           env1 == IF /\ EnvFlag(env.AO_SUB_AUTO_OFFSET, TRUE)
                      /\ lead_ok
                      /\ lead > Ms(10)
                      /\ BaseOffParses(env.AO_SUB_OFFSET_MS)
                   THEN [env EXCEPT !.AO_SUB_OFFSET_MS =
                           EnvInt(BaseOff(env.AO_SUB_OFFSET_MS) - RoundToMs(lead))]
                   ELSE env
           out == build_chunk_timeline(data1, env1, duration_sec, video_type, TimingConfig)
       IN  /\ data' = data1
           /\ env' = env1
           /\ calls' = Append(calls, CallRecord(fn, video_type, FALSE, data1, env1,
                                                TimingConfig, out))
    /\ UNCHANGED <<duration_sec, audio, cfgObj>>

render_short_video ==
    \E detect_ok, lead_ok \in BOOLEAN :
        _render_video_generic("render_short_video", "short", detect_ok, lead_ok)

render_long_video_16x9 ==
    \E detect_ok, lead_ok \in BOOLEAN :
        _render_video_generic("render_long_video_16x9", "long", detect_ok, lead_ok)

render_long_video_9x16 ==
    \E detect_ok, lead_ok \in BOOLEAN :
        _render_video_generic("render_long_video_9x16", "long", detect_ok, lead_ok)

BuildChunkTimelineCall ==
    \E video_type \in {"short", "long"}, shared \in BOOLEAN :
        ApiCall(video_type, shared, MaxCalls)

\* ------------------------------------------------- specification: process

\* One process that renders one script over one audio file.
Audios ==
    {Audio(<< >>, << >>, Sec(10)),
     Audio(<<0>>, <<Ms(400)>>, Sec(10)),
     Audio(<<0, Sec(4)>>, <<Ms(1200), Sec(5)>>, Sec(10)),
     Audio(<<Sec(4)>>, << >>, DUR_UNKNOWN),
     Audio(<< >>, << >>, DUR_UNKNOWN)}

ProcessEnvs ==
    {NoEnv,
     [NoEnv EXCEPT !.AO_SUB_AUTOSYNC = EnvInt(1)],
     [NoEnv EXCEPT !.AO_SUB_OFFSET_MS = EnvInt(300)],
     [NoEnv EXCEPT !.AO_SUB_OFFSET_MS = EnvJunk],
     [NoEnv EXCEPT !.AO_SUB_AUTO_OFFSET = EnvInt(0)],
     [NoEnv EXCEPT !.AO_SUB_AUTOSYNC = EnvInt(1), !.AO_SUB_OFFSET_MS = EnvInt(300)]}

ProcessScripts == {<<T_3, T_9>>, <<T_9, T_9, T_3>>}

Init ==
    /\ env \in ProcessEnvs
    /\ data \in {Data(sc, << >>, << >>, << >>) : sc \in ProcessScripts}
    /\ audio \in Audios
    /\ duration_sec = Sec(10)
    /\ cfgObj = TimingConfig
    /\ calls = << >>

Next ==
    \/ render_short_video
    \/ render_long_video_16x9
    \/ render_long_video_9x16
    \/ BuildChunkTimelineCall

Spec == Init /\ [][Next]_vars

\* ------------------------------------- specification: the timeline builder

\* build_chunk_timeline as a function of its inputs: one invocation per
\* behaviour, on every combination of the inputs below.
InitTimeline ==
    /\ audio = Audio(<< >>, << >>, Sec(10))
    /\ calls = << >>
    /\ \/ /\ env \in Envs
          /\ duration_sec \in Durations
          /\ cfgObj = TimingConfig
          /\ data \in
               {Data(sc, << >>, << >>, segs) :
                    sc \in SeqsUpTo(Texts, MaxChunks), segs \in SegLists}
               \cup {Data(<< >>, nc, scenes, << >>) :
                    nc \in {<< >>, <<T_3, T_9>>}, scenes \in SceneLists}
          /\ (~EnvFlag(env.AO_SUB_AUTOSYNC, FALSE) =>
                 Len(data.speech_segments) <= 1)
       \/ /\ env \in {NoEnv, [NoEnv EXCEPT !.AO_SUB_OFFSET_MS = EnvInt(300)]}
          /\ duration_sec = ScenarioDuration
          /\ cfgObj = ScenarioConfig
          /\ data = Data(ScenarioChunks, << >>, << >>, << >>)

NextTimeline ==
    \E video_type \in {"short", "long"}, shared \in BOOLEAN :
        ApiCall(video_type, shared, 1)

SpecTimeline == InitTimeline /\ [][NextTimeline]_vars

\* ----------------------------------------------------------------- claims

Calls == {calls[i] : i \in DOMAIN calls}
Autosync(c) == EnvFlag(c.env.AO_SUB_AUTOSYNC, FALSE)

FloorBinds(c) == \E i \in DOMAIN c.out.durations : c.out.durations[i] = FLOOR_DUR

C5_DurationBounds ==
    \A c \in Calls :
        LET n == Len(c.out.items)
        IN  (n > 0 /\ n * c.out.min_d <= c.out.usable /\ c.out.usable <= n * c.out.max_d) =>
                \A i \in DOMAIN c.out.durations :
                    /\ c.out.durations[i] >= c.out.min_d - EPS
                    /\ c.out.durations[i] <= c.out.max_d + EPS

IsScenario(c) ==
    /\ c.data.subtitle_chunks = ScenarioChunks
    /\ c.duration_sec = ScenarioDuration
    /\ c.out.min_d = Ms(500)
    /\ c.out.max_d = Ms(5000)
    /\ c.out.max_gap = Ms(200)
    /\ ~Autosync(c)

\* C6: for lengths 10, 40, 10, 10, 10 over 20.0 s with min 0.5, max 5.0,
\* max_gap 0.2 and autosync off, the longest chunk gets the largest
\* allocation, that allocation is the cap 5.0 s, the other chunks get more than
\* their proportional share 19.6 x 10 / 80 s, and the total is within 0.05 s
\* of 19.6 s.
C6_Scenario ==
    \A c \in Calls : IsScenario(c) =>
        LET ds == c.out.durations
        IN  /\ Len(ds) = 5
            /\ \A i \in {1, 3, 4, 5} : ds[2] > ds[i]
            /\ ds[2] = Ms(5000)
            /\ \A i \in {1, 3, 4, 5} : ds[i] > MulDiv(Ms(19600), 10, 80)
            /\ Abs(SumSeq(ds) - Ms(19600)) <= Ms(50)
            /\ Abs(Last(c.out.placed).end_raw - Ms(19600)) <= Ms(50)

C6_Witness == \E c \in Calls : IsScenario(c) /\ Len(c.out.timeline) = 5

IsRender(c) == c.fn # "build_chunk_timeline"

SameInputs(a, b) ==
    /\ a.data = b.data
    /\ a.duration_sec = b.duration_sec
    /\ a.video_type = b.video_type
    /\ a.env = b.env

\* C10: two invocations of build_chunk_timeline with the same data, duration,
\* video type and environment, and with the same configuration (equal
\* fields, or the very object the earlier invocation was given and wrote its
\* overrides into), return the same timeline.
C10_Deterministic ==
    \A i, j \in DOMAIN calls :
        (/\ i < j
         /\ SameInputs(calls[i], calls[j])
         /\ calls[j].cfg_in \in {calls[i].cfg_in, calls[i].out.cfg}) =>
            calls[j].out.timeline = calls[i].out.timeline

\* the same object passed twice, changed by the first invocation
C10_Witness ==
    \E i, j \in DOMAIN calls :
        /\ i < j
        /\ calls[i].shared /\ calls[j].shared
        /\ SameInputs(calls[i], calls[j])
        /\ calls[j].cfg_in = calls[i].out.cfg
        /\ calls[j].cfg_in # calls[i].cfg_in
        /\ Len(calls[j].out.timeline) >= 2


\* ------------------------------------ specification: the speech detector

\* detect_speech_segments as a function of the silencedetect log and the
\* ffprobe duration: one invocation per behaviour.
MaxSilences == 2

LogTimes == {0, Sec(1), Sec(1) + Ms(50), Sec(2), Sec(5), Sec(6)}

\* a silence_start line and the silence_end line that follows it
LogPairs == {p \in LogTimes \X LogTimes : p[1] < p[2]}

\* the silence_end line of a silence whose silence_start line does not match
\* _SILENCE_START_RE (ffmpeg reports a silence at the head of the file with a
\* negative start, and the pattern has no sign)
LeadingEnds == {<< >>, <<Ms(500)>>}

\* A log of k silences in any order; the last silence_end line may be missing
\* (the file ends inside the silence), and the log may begin with a
\* silence_end line.
SilenceLogs ==
    UNION {{[starts |-> [i \in 1..Len(ps) |-> ps[i][1]],
             ends |-> lead \o [i \in 1..(Len(ps) - cut) |-> ps[i][2]]] :
               cut \in (IF ps = << >> THEN {0} ELSE {0, 1}), lead \in LeadingEnds} :
           ps \in SeqsUpTo(LogPairs, MaxSilences)}

LogDurations == {DUR_UNKNOWN, Sec(6), Sec(10)}

DetectRecord(padding_sec) ==
    [fn |-> "detect_speech_segments",
     starts |-> audio.starts, ends |-> audio.ends, dur |-> audio.dur,
     padding_sec |-> padding_sec,
     silences |-> SilenceIntervals(audio.starts, audio.ends, audio.dur, 1),
     out |-> detect_speech_segments(audio.starts, audio.ends, audio.dur, padding_sec)]

\* A caller invokes detect_speech_segments(path, padding_sec = ...).
DetectSpeechSegmentsCall(padding_sec) ==
    /\ Len(calls) < 1
    /\ calls' = Append(calls, DetectRecord(padding_sec))
    /\ UNCHANGED <<env, data, duration_sec, audio, cfgObj>>

InitDetector ==
    /\ env = NoEnv
    /\ data = Data(<< >>, << >>, << >>, << >>)
    /\ duration_sec = Sec(10)
    /\ cfgObj = TimingConfig
    /\ calls = << >>
    /\ audio \in {Audio(l.starts, l.ends, dur) : l \in SilenceLogs, dur \in LogDurations}

NextDetector ==
    \E padding_sec \in {0, PADDING_SEC} : DetectSpeechSegmentsCall(padding_sec)

SpecDetector == InitDetector /\ [][NextDetector]_vars


\* ------------------------------------------------- claims on the detector

DetectCalls == {c \in Calls : c.fn = "detect_speech_segments"}

SeqToSet(s) == {s[i] : i \in DOMAIN s}

\* the open interval (a, b) meets no silence of the log
Uncovered(c, a, b) ==
    \A i \in DOMAIN c.silences : c.silences[i].end <= a \/ c.silences[i].start >= b

\* the maximal intervals of [0, dur] that no silence covers: they start at 0
\* or at the end of a silence, and end at a silence start or at dur
MaximalSpeech(c) ==
    {Seg(a, b) :
        a \in {0} \cup {c.silences[i].end : i \in DOMAIN c.silences},
        b \in {c.dur} \cup {c.silences[i].start : i \in DOMAIN c.silences}}
    \cap {g \in [start : 0..c.dur, end : 0..c.dur] :
            g.start < g.end /\ Uncovered(c, g.start, g.end)}

SpecExample(c) ==
    /\ c.starts = <<Sec(1), Sec(5)>> /\ c.ends = <<Sec(2), Sec(6)>>
    /\ c.dur = Sec(10) /\ c.padding_sec = 0

\* C11: with padding 0 and a known duration the returned segments are, in
\* ascending order, exactly the maximal intervals of [0, dur] not covered by
\* a silence; for starts 1.0, 5.0 and ends 2.0, 6.0 over 10.0 s they are
\* [0, 1.0], [2.0, 5.0], [6.0, 10.0].
C11_Complement ==
    \A c \in DetectCalls :
        (c.padding_sec = 0 /\ c.dur # DUR_UNKNOWN /\ c.silences # << >>) =>
            /\ SeqToSet(c.out) = MaximalSpeech(c)
            /\ \A i \in DOMAIN c.out : i + 1 \in DOMAIN c.out =>
                   c.out[i].end < c.out[i + 1].start
            /\ (SpecExample(c) =>
                   c.out = <<Seg(0, Sec(1)), Seg(Sec(2), Sec(5)), Seg(Sec(6), Sec(10))>>)

C11_Witness ==
    \E c \in DetectCalls : SpecExample(c) /\ Len(c.out) = 3


\* C12: with the default padding the returned segments are sorted ascending
\* by start, pairwise non-overlapping, and each has end > start, for every
\* silence log.
C12_SegmentInvariant ==
    \A c \in DetectCalls : c.padding_sec = PADDING_SEC =>
        /\ \A i \in DOMAIN c.out : c.out[i].end > c.out[i].start
        /\ \A i \in DOMAIN c.out : i + 1 \in DOMAIN c.out =>
              /\ c.out[i].start <= c.out[i + 1].start
              /\ c.out[i].end <= c.out[i + 1].start

\* C13: with a known duration every returned segment lies within [0, dur]
\* after padding.
C13_WithinDuration ==
    \A c \in DetectCalls : c.dur # DUR_UNKNOWN =>
        \A i \in DOMAIN c.out : c.out[i].start >= 0 /\ c.out[i].end <= c.dur

\* the result of the same call on another log
Detect(c, starts, ends) == detect_speech_segments(starts, ends, c.dur, c.padding_sec)

\* C14: a silence start with no matching end gives a silence that extends to
\* dur when the duration is known; when it is unknown the start is dropped:
\* no silence interval for it, and the same result as without it.
C14_UnmatchedStart ==
    \A c \in DetectCalls : Len(c.ends) < Len(c.starts) =>
        LET n == Len(c.starts)
        IN  IF c.dur # DUR_UNKNOWN
            THEN /\ Len(c.silences) = n
                 /\ c.silences[n] = Seg(c.starts[n], c.dur)
            ELSE /\ Len(c.silences) = n - 1
                 /\ c.out = Detect(c, SubSeq(c.starts, 1, n - 1), c.ends)


\* ---------------------------------------- claims on detector and builder

\* the detector ran in the render of call c and found no silence
NoSilenceRender(c) ==
    /\ IsRender(c) /\ Autosync(c)
    /\ audio.starts = << >>
    /\ c.data.speech_segments # << >>

\* C15: when no silence is detected, detect_speech_segments returns exactly
\* one segment starting at 0, ending at the duration when it is known and at
\* the sentinel 9999 s when it is not; the timeline builder then allocates
\* over the full audio duration: one window [0, duration_sec] and
\* usable = 0.98 x duration_sec.
C15_NoSilenceFullDuration ==
    \A c \in Calls : NoSilenceRender(c) =>
        /\ c.data.speech_segments =
              <<Seg(0, IF audio.dur = DUR_UNKNOWN THEN SENTINEL_END
                       ELSE Max(Ms(100), audio.dur))>>
        /\ c.out.windows = <<Seg(0, c.duration_sec)>>
        /\ c.out.usable = MulDiv(c.duration_sec, 98, 100)
        /\ Abs(SumSeq(c.out.durations) - c.out.usable) <= EPS
        /\ Abs(Last(c.out.placed).end_raw - c.out.usable) <= EPS

\* a render with autosync on over audio with no silence and no duration
C15_Witness ==
    \E c \in Calls :
        /\ NoSilenceRender(c)
        /\ audio.dur = DUR_UNKNOWN
        /\ c.data.speech_segments[1].end = SENTINEL_END
        /\ Len(c.out.timeline) >= 2


\* ------------------------------------------------- the chunker (strings)

\* A string is a sequence of characters.  "a" is a letter, "." a sentence
\* end, "," a clause separator, " " whitespace, and "P" one control marker
\* such as [PAUSA].

\* pieces of s between characters of seps, empty pieces dropped
RECURSIVE SplitChars(_, _, _, _)
SplitChars(s, seps, cur, out) ==
    IF s = << >> THEN (IF cur = << >> THEN out ELSE Append(out, cur))
    ELSE IF Head(s) \in seps
    THEN SplitChars(Tail(s), seps, << >>, IF cur = << >> THEN out ELSE Append(out, cur))
    ELSE SplitChars(Tail(s), seps, Append(cur, Head(s)), out)

\* str.split()
SplitWords(s) == SplitChars(s, {" "}, << >>, << >>)

RECURSIVE JoinWords(_)
JoinWords(ws) ==
    IF ws = << >> THEN << >>
    ELSE IF Len(ws) = 1 THEN ws[1]
    ELSE ws[1] \o <<" ">> \o JoinWords(Tail(ws))

\* str.strip()
RECURSIVE StripSpaces(_)
StripSpaces(s) ==
    IF s = << >> THEN s
    ELSE IF Head(s) = " " THEN StripSpaces(Tail(s))
    ELSE IF Last(s) = " " THEN StripSpaces(SubSeq(s, 1, Len(s) - 1))
    ELSE s

\* re.sub(pat, " ", t) for each control marker
_strip_control_tokens(text) ==
    [i \in 1..Len(text) |-> IF text[i] = "P" THEN " " ELSE text[i]]

\* re.sub(r"\s+", " ", s).strip() after stripping the markers
_clean(s) == JoinWords(SplitWords(_strip_control_tokens(StripSpaces(s))))

\* _SENT_SPLIT.split(text): cut at whitespace that follows a sentence end
RECURSIVE SentSplit(_, _, _)
SentSplit(s, cur, out) ==
    IF s = << >> THEN Append(out, cur)
    ELSE IF Head(s) = " " /\ cur # << >> /\ Last(cur) = "."
    THEN SentSplit(Tail(s), << >>, Append(out, cur))
    ELSE SentSplit(Tail(s), Append(cur, Head(s)), out)

\* [x.strip() for x in pieces if x.strip()]
RECURSIVE StrippedNonEmpty(_)
StrippedNonEmpty(pieces) ==
    IF pieces = << >> THEN << >>
    ELSE (IF StripSpaces(Head(pieces)) = << >> THEN << >>
          ELSE <<StripSpaces(Head(pieces))>>) \o StrippedNonEmpty(Tail(pieces))

\* a variant that keeps all the words of a clause on one line
PackWords_NoLimit(words, cur, max_chars, out) ==
    IF words = << >> THEN out ELSE Append(out, JoinWords(words))

\* the fallback of split_into_chunks: pack words greedily into lines of at
\* most max_chars characters
RECURSIVE PackWords(_, _, _, _)
PackWords(words, cur, max_chars, out) ==
    IF words = << >> THEN (IF cur = << >> THEN out ELSE Append(out, cur))
    ELSE LET w == Head(words)
         IN  IF cur = << >> THEN PackWords(Tail(words), w, max_chars, out)
             ELSE IF Len(cur) + 1 + Len(w) <= max_chars
             THEN PackWords(Tail(words), cur \o <<" ">> \o w, max_chars, out)
             ELSE PackWords(Tail(words), w, max_chars, Append(out, cur))

\* the chunks of one clause s
RECURSIVE ClauseChunks(_, _)
ClauseChunks(sub, max_chars) ==
    IF sub = << >> THEN << >>
    ELSE LET s == _clean(Head(sub))
         IN  (IF s = << >> THEN << >>
              ELSE IF Len(s) <= max_chars THEN <<s>>
              ELSE PackWords(SplitWords(s), << >>, max_chars, << >>))
             \o ClauseChunks(Tail(sub), max_chars)

\* the chunks of the sentences parts
RECURSIVE SentenceChunks(_, _)
SentenceChunks(parts, max_chars) ==
    IF parts = << >> THEN << >>
    ELSE LET p == _clean(Head(parts))
         IN  (IF p = << >> THEN << >>
              ELSE IF Len(p) <= max_chars THEN <<p>>
              ELSE ClauseChunks(StrippedNonEmpty(SplitChars(p, {","}, << >>, << >>)),
                                max_chars))
             \o SentenceChunks(Tail(parts), max_chars)

split_into_chunks(text, max_chars) ==
    LET t == _clean(text)
    IN  IF t = << >> THEN << >>
        ELSE SentenceChunks(StrippedNonEmpty(SentSplit(t, << >>, << >>)), max_chars)


\* ------------------------------------------- specification: the chunker

\* split_into_chunks as a function of the narration text and max_chars: one
\* invocation per behaviour.
MaxText == 5

Chars == {"a", " ", ".", ",", "P"}

Narrations == SeqsUpTo(Chars, MaxText)

ChunkLimits == {1, 3, 4}

\* A caller invokes split_into_chunks(narration_text, max_chars).
SplitIntoChunksCall(max_chars) ==
    /\ Len(calls) < 1
    /\ calls' = Append(calls,
                       [fn |-> "split_into_chunks", text |-> data.narration_text,
                        max_chars |-> max_chars,
                        out |-> split_into_chunks(data.narration_text, max_chars)])
    /\ UNCHANGED <<env, data, duration_sec, audio, cfgObj>>

InitChunker ==
    /\ env = NoEnv
    /\ data \in {[narration_text |-> t] : t \in Narrations}
    /\ duration_sec = Sec(10)
    /\ audio = Audio(<< >>, << >>, Sec(10))
    /\ cfgObj = TimingConfig
    /\ calls = << >>

NextChunker == \E max_chars \in ChunkLimits : SplitIntoChunksCall(max_chars)

SpecChunker == InitChunker /\ [][NextChunker]_vars

\* ------------------------------------------------- claims on the chunker

SplitCalls == {c \in Calls : c.fn = "split_into_chunks"}

\* nothing but whitespace and control markers
BlankText(t) == \A i \in DOMAIN t : t[i] \in {" ", "P"}

\* C16: every chunk split_into_chunks emits is non-empty and is either at
\* most max_chars characters long or a single word longer than max_chars;
\* empty, whitespace-only or control-marker-only text gives no chunk.
C16_ChunkBound ==
    \A c \in SplitCalls :
        /\ \A i \in DOMAIN c.out :
              /\ c.out[i] # << >>
              /\ \/ Len(c.out[i]) <= c.max_chars
                 \/ \A k \in DOMAIN c.out[i] : c.out[i][k] # " "
        /\ (BlankText(c.text) => c.out = << >>)

\* a text cut at a sentence end, at a comma and by words, with a word longer
\* than max_chars emitted whole
C16_Witness ==
    \E c \in SplitCalls :
        /\ Len(c.out) >= 2
        /\ \E i \in DOMAIN c.out : Len(c.out[i]) > c.max_chars
        /\ \E k \in DOMAIN c.text : c.text[k] = "P"


\* ------------------------------------------------------ the ASS writer

\* the twelve header lines of write_karaoke_ass, for the default AssStyle
AssHeader ==
    <<"[Script Info]", "ScriptType: v4.00+", "PlayResX: 1080", "PlayResY: 1920",
      "ScaledBorderAndShadow: yes", "",
      "[V4+ Styles]", "Format: Name, Fontname, Fontsize, ...",
      "Style: Default,Arial,62,&H00FFFFFF,&H00FFFFFF,&H00000000,&H00000000,0,0,0,0,100,100,0,0,1,3,0,2,60,60,120,1",
      "", "[Events]",
      "Format: Layer, Start, End, Style, Name, MarginL, MarginR, MarginV, Effect, Text">>

\* round(x / unit) for x >= 0, halves to even as Python's round
RoundDiv(x, unit) ==
    LET q == x \div unit
        r == x % unit
    IN  IF 2 * r > unit \/ (2 * r = unit /\ q % 2 = 1) THEN q + 1 ELSE q

\* h:mm:ss.cs as the record of its four numbers
_ass_time(t) ==
    LET t0 == Max(0, t)
        secs == t0 \div Sec(1)
    IN  [h |-> secs \div 3600,
         m |-> (secs % 3600) \div 60,
         s |-> secs % 60,
         cs |-> RoundDiv(t0 % Sec(1), Ms(10))]

\* one {\k<n>}word tag per word, n in centiseconds; a word is its length
_karaoke_word_tags(words, start, end) ==
    LET total_ms == Max(200, RoundDiv(end - start, Ms(1)))
        per == Max(1, total_ms \div Max(1, Len(words)))
    IN  [i \in 1..Len(words) |-> [k |-> Max(1, per \div 10), w |-> words[i]]]

\* item.get(key, default): keys is the set of keys the entry has
ItemGet(item, key, default) == IF key \in item.keys THEN item[key] ELSE default

\* a variant that writes a line for every entry, empty text included
DialogueLines_NoSkip(item) ==
    LET st == ItemGet(item, "start", 0)
        en == ItemGet(item, "end", st + Ms(500))
        text == Strip(ItemGet(item, "text", Text(0, << >>)))
        given == ItemGet(item, "words", << >>)
        words == IF given # << >> THEN given ELSE text.words
    IN  <<[start |-> _ass_time(st), end |-> _ass_time(en),
           ktext |-> _karaoke_word_tags(words, st, en)]>>

\* the Dialogue line of one timeline entry, or no line
DialogueLines(item) ==
    LET st == ItemGet(item, "start", 0)
        en == ItemGet(item, "end", st + Ms(500))
        text == Strip(ItemGet(item, "text", Text(0, << >>)))
        given == ItemGet(item, "words", << >>)
        words == IF given # << >> THEN given ELSE text.words
    IN  IF StrLen(text) = 0 THEN << >>
        ELSE <<[start |-> _ass_time(st), end |-> _ass_time(en),
                ktext |-> _karaoke_word_tags(words, st, en)]>>

RECURSIVE AssEvents(_)
AssEvents(timeline) ==
    IF timeline = << >> THEN << >>
    ELSE DialogueLines(Head(timeline)) \o AssEvents(Tail(timeline))

\* the document written to out_path; tl.is_none stands for timeline = None
write_karaoke_ass(tl) ==
    LET timeline == IF tl.is_none THEN << >> ELSE tl.entries
    IN  [header |-> AssHeader, events |-> AssEvents(timeline)]


\* ----------------------------------------- specification: the ASS writer

\* write_karaoke_ass as a function of the timeline: one invocation per
\* behaviour.
MaxEntries == 3

AllKeys == {"text", "words", "start", "end"}

Entry(text, words, start, end, keys) ==
    [text |-> text, words |-> words, start |-> start, end |-> end, keys |-> keys]

\* entries as build_chunk_timeline returns them (the third is the last entry
\* of three chunks over 0.3 s of audio), entries whose text is empty or
\* blank, and entries with fields missing
AssEntries ==
    {Entry(T_9, T_9.words, 0, Ms(1500), AllKeys),
     Entry(T_3, T_3.words, Ms(1400), Ms(2600), AllKeys),
     Entry(T_9, T_9.words, Ms(194), Ms(344), AllKeys),
     Entry(T_3, T_3.words, Ms(59996), Ms(119996), AllKeys),
     Entry(T_blank, << >>, Ms(2600), Sec(3), AllKeys),
     Entry(Text(0, << >>), << >>, Sec(3), Sec(4), AllKeys),
     Entry(T_3, << >>, Sec(1), 0, {"text", "start"}),
     Entry(T_9, T_9.words, 0, 0, {"words"})}

AssTimelines ==
    {[is_none |-> TRUE, entries |-> << >>]}
    \cup {[is_none |-> FALSE, entries |-> es] : es \in SeqsUpTo(AssEntries, MaxEntries)}

\* subtitles.py: the formatter of write_ass, which rounds to centiseconds
\* before it splits.  The module has a syntax error at line 86; the two
\* functions are modelled from their text.
_ass_time_cues(t) ==
    LET cs == RoundDiv(t, Ms(10))
    IN  [h |-> cs \div 360000,
         m |-> (cs % 360000) \div 6000,
         s |-> (cs % 6000) \div 100,
         cs |-> cs % 100]

\* subtitles.py: one Dialogue event per cue
write_ass(cues) ==
    [i \in DOMAIN cues |-> [start |-> _ass_time_cues(cues[i].start),
                            end |-> _ass_time_cues(cues[i].end)]]

\* A caller invokes write_ass(cues, out_path) on cues, which have every field.
WriteAssCall ==
    /\ Len(calls) < 1
    /\ ~data.timeline.is_none
    /\ \A i \in DOMAIN data.timeline.entries : data.timeline.entries[i].keys = AllKeys
    /\ calls' = Append(calls, [fn |-> "write_ass", timeline |-> data.timeline,
                               out |-> write_ass(data.timeline.entries)])
    /\ UNCHANGED <<env, data, duration_sec, audio, cfgObj>>

\* A caller invokes write_karaoke_ass(timeline, out_path).
WriteKaraokeAssCall ==
    /\ Len(calls) < 1
    /\ calls' = Append(calls, [fn |-> "write_karaoke_ass", timeline |-> data.timeline,
                               out |-> write_karaoke_ass(data.timeline)])
    /\ UNCHANGED <<env, data, duration_sec, audio, cfgObj>>

InitAss ==
    /\ env = NoEnv
    /\ data \in {[timeline |-> tl] : tl \in AssTimelines}
    /\ duration_sec = Sec(10)
    /\ audio = Audio(<< >>, << >>, Sec(10))
    /\ cfgObj = TimingConfig
    /\ calls = << >>

NextAss == WriteKaraokeAssCall \/ WriteAssCall

SpecAss == InitAss /\ [][NextAss]_vars

\* ---------------------------------------------- claims on the ASS writer

AssCalls == {c \in Calls : c.fn = "write_karaoke_ass"}

\* the text of the entry is non-empty after stripping
HasText(item) == "text" \in item.keys /\ ~IsBlank(item.text)

\* the positions of the entries with text, in timeline order
RECURSIVE TextPositions(_, _)
TextPositions(entries, i) ==
    IF i > Len(entries) THEN << >>
    ELSE (IF HasText(entries[i]) THEN <<i>> ELSE << >>) \o TextPositions(entries, i + 1)

\* C17: write_karaoke_ass emits exactly one Dialogue event per timeline entry
\* whose text is non-empty after stripping, in timeline order (the k-th event
\* carries the start of the k-th such entry); entries with empty text are
\* skipped; an empty or missing timeline gives the full header and no event.
C17_OneEventPerEntry ==
    \A c \in AssCalls :
        LET pos == TextPositions(c.timeline.entries, 1)
        IN  /\ c.out.header = AssHeader
            /\ Len(c.out.events) = Len(pos)
            /\ \A k \in DOMAIN pos :
                  LET item == c.timeline.entries[pos[k]]
                  IN  /\ c.out.events[k].start =
                            _ass_time(IF "start" \in item.keys THEN item.start ELSE 0)
                      /\ Len(c.out.events[k].ktext) > 0
            /\ ((c.timeline.is_none \/ c.timeline.entries = << >>) =>
                   c.out.events = << >>)

\* a timeline of three entries, the middle one blank, written as two events
C17_Witness ==
    \E c \in AssCalls :
        /\ Len(c.timeline.entries) = 3
        /\ ~HasText(c.timeline.entries[2])
        /\ HasText(c.timeline.entries[1]) /\ HasText(c.timeline.entries[3])
        /\ Len(c.out.events) = 2


\* ------------------------------------------------ the subtitle validator

\* A chunk text is a sequence of words separated by single spaces.  A word
\* is its upper-case spelling and its number of characters; a word cut by
\* t[:max_chars] keeps its spelling and has fewer characters.  lower says the
\* text is written in lower case, emoji that it contains an emoji.  A chunk
\* that is not a str has k = "other".
WordLen(name) ==
    CASE name \in {"E"} -> 1
      [] name \in {"NO", "AÍ"} -> 2
      [] name \in {"OLA", "NÃO"} -> 3
      [] name \in {"ISSO", "MUDA", "TUDO", "BATE", "FITA", "FICA", "AQUI"} -> 4
      [] name \in {"MUNDO"} -> 5
      [] name \in {"ARQUIVO", "OFICIAL", "DETALHE", "ANOTADO"} -> 7
      [] name \in {"REGISTRO"} -> 8
      [] name \in {"EVIDÊNCIA"} -> 9
      [] name \in {"DOCUMENTADO"} -> 11
      [] name \in {"INVESTIGADORES"} -> 14
      [] OTHER -> 6

Word(name) == [name |-> name, len |-> WordLen(name)]

Words(names) == [i \in 1..Len(names) |-> Word(names[i])]

Str(names, lower, emoji) ==
    [k |-> "str", words |-> Words(names), lower |-> lower, emoji |-> emoji]

NonStr == [k |-> "other", words |-> << >>, lower |-> FALSE, emoji |-> FALSE]

_EVIDENCE_TOKENS ==
    {"ARQUIVO", "REGISTRO", "DOCUMENTO", "CARIMBO", "FITA", "FOTO", "RELATÓRIO",
     "LISTA", "PROTOCOLO", "FICHA", "DATA", "HORÁRIO", "HORA", "MAPA", "LAUDO",
     "CONFIDENCIAL", "OFICIAL", "MUNICIPAL"}

\* the phrases of _GENERIC_PATTERNS, as word lists
_GENERIC_PATTERNS ==
    {<<"NINGUÉM", "SABE">>, <<"ISSO", "MUDA", "TUDO">>, <<"A", "VERDADE">>,
     <<"NADA", "FAZ", "SENTIDO">>, <<"VOCÊ", "ACREDITA">>, <<"VOCÊ", "ACHA">>,
     <<"UM", "DETALHE">>, <<"ALGO", "ESTRANHO">>}

SubtitleRules ==
    [min_words |-> 2, max_words |-> 5, max_chars |-> 34,
     uppercase |-> TRUE, allow_emojis |-> FALSE]

StrictRules ==
    [enabled |-> FALSE, max_repeat_ratio_pct |-> 35,
     max_same_chunk_duplicates_scene |-> 0,
     avoid_consecutive_duplicate_chunks |-> TRUE, ban_generic_chunks |-> TRUE,
     require_evidence_in_roles |-> {"evidencia", "contradicao"},
     allow_fallback |-> TRUE]

\* len(" ".join(w))
JoinedLen(w) ==
    SumSeq([i \in 1..Len(w) |-> w[i].len]) + (IF Len(w) > 0 THEN Len(w) - 1 ELSE 0)

\* a word in full, not a cut one
WholeWord(w) == w.len = WordLen(w.name)

\* bool(toks & _EVIDENCE_TOKENS)
_has_evidence_token(t) ==
    \E i \in DOMAIN t.words : WholeWord(t.words[i]) /\ t.words[i].name \in _EVIDENCE_TOKENS

\* _GENERIC_RE.match(_normalize(t).upper())
IsGeneric(t) ==
    /\ \A i \in DOMAIN t.words : WholeWord(t.words[i])
    /\ [i \in 1..Len(t.words) |-> t.words[i].name] \in _GENERIC_PATTERNS

\* while w and len(" ".join(w)) > max_chars: w = w[:-1]
RECURSIVE DropTrailing(_, _)
DropTrailing(w, max_chars) ==
    IF w = << >> \/ JoinedLen(w) <= max_chars THEN w
    ELSE DropTrailing(SubSeq(w, 1, Len(w) - 1), max_chars)

\* t[: max_chars].rstrip() when not even the first word fits
CutFirst(w, max_chars) ==
    IF max_chars <= 0 THEN << >>
    ELSE <<[name |-> w[1].name, len |-> Min(w[1].len, max_chars)]>>

\* sanitize_chunk_text without the trim of lines 119-123
sanitize_chunk_text_NoTrim(t, rules) ==
    [k |-> "str", words |-> t.words,
     lower |-> IF rules.uppercase THEN FALSE ELSE t.lower, emoji |-> FALSE]

sanitize_chunk_text(t, rules) ==
    LET up == IF rules.uppercase THEN FALSE ELSE t.lower
        kept == DropTrailing(t.words, rules.max_chars)
        w == IF JoinedLen(t.words) <= rules.max_chars THEN t.words
             ELSE IF kept # << >> THEN kept
             ELSE CutFirst(t.words, rules.max_chars)
    IN  [k |-> "str", words |-> w, lower |-> up, emoji |-> FALSE]

enforce_word_count(t, rules) ==
    LET w == IF Len(t.words) > rules.max_words
             THEN SubSeq(t.words, 1, rules.max_words) ELSE t.words
    IN  [k |-> "str", words |-> w,
         lower |-> IF rules.uppercase THEN FALSE ELSE t.lower, emoji |-> FALSE]

\* the text cur + " " + nxt
Concat(cur, nxt) ==
    [k |-> "str", words |-> cur.words \o nxt.words,
     lower |-> cur.lower \/ nxt.lower, emoji |-> cur.emoji \/ nxt.emoji]


\* the candidate phrase of _fallback_chunk_for_scene; doc says that the
\* visual anchor mentions a document, an evidence or an archive
FallbackCandidate(role, doc) ==
    CASE role = "evidencia" ->
            IF doc THEN <<"REGISTRO", "OFICIAL">> ELSE <<"EVIDÊNCIA", "NO", "ARQUIVO">>
      [] role = "contradicao" -> <<"ISSO", "NÃO", "BATE">>
      [] role = "desfecho" -> <<"E", "ISSO", "FICA", "AÍ">>
      [] role = "gancho" -> <<"ANOTADO", "NO", "ARQUIVO">>
      [] OTHER -> <<"DETALHE", "DOCUMENTADO">>

\* the value of scene.get(key) or "": a str, or empty for a missing or falsy
\* value; a truthy value that is no str has no .strip()
FieldRaises(f) == f.k = "other"
RoleOf(scene) == IF scene.narrative_role.k = "str" THEN scene.narrative_role.v ELSE ""
AnchorIsDoc(scene) == scene.visual_anchor.k = "str" /\ scene.visual_anchor.doc

_fallback_chunk_for_scene(scene, rules) ==
    LET cand == enforce_word_count(
                    sanitize_chunk_text(
                        Str(FallbackCandidate(RoleOf(scene), AnchorIsDoc(scene)),
                            FALSE, FALSE), rules), rules)
        w == cand.words
        padded == IF w # << >>
                  THEN [k |-> "str",
                        words |-> SubSeq(Append(w, Word("AQUI")), 1, rules.min_words),
                        lower |-> FALSE, emoji |-> FALSE]
                  ELSE Str(<<"NO", "ARQUIVO">>, FALSE, FALSE)
    IN  IF Len(w) < rules.min_words
        THEN enforce_word_count(sanitize_chunk_text(padded, rules), rules)
        ELSE cand

SubtitleIssue(scene_id, chunk_index, code) ==
    [scene_id |-> scene_id, chunk_index |-> chunk_index, code |-> code]

\* the per-chunk pass, written as a chain of steps: each step takes the
\* text and the issues of the step before.  ci is the 0-based chunk index.

\* the chunk is dropped when it is empty (lines 212-214), kept otherwise
CleanEmpty(t, issues, scene_id, ci) ==
    IF t.words = << >>
    THEN [kept |-> << >>,
          issues |-> Append(issues, SubtitleIssue(scene_id, ci, "empty"))]
    ELSE [kept |-> <<t>>, issues |-> issues]

\* the char limit (lines 206-210): t2 is sanitize_chunk_text(t)
CleanCharsApply(t, t2, issues, scene_id, ci) ==
    CleanEmpty(t2,
               IF JoinedLen(t2.words) < JoinedLen(t.words)
               THEN Append(issues, SubtitleIssue(scene_id, ci, "too_many_chars"))
               ELSE issues,
               scene_id, ci)

CleanChars(t, issues, scene_id, ci, rules) ==
    IF JoinedLen(t.words) > rules.max_chars
    THEN CleanCharsApply(t, sanitize_chunk_text(t, rules), issues, scene_id, ci)
    ELSE CleanEmpty(t, issues, scene_id, ci)

\* the word count (lines 200-203)
CleanWords(t, issues, scene_id, ci, rules) ==
    IF Len(t.words) > rules.max_words
    THEN CleanChars(enforce_word_count(t, rules),
                    Append(issues, SubtitleIssue(scene_id, ci, "too_many_words")),
                    scene_id, ci, rules)
    ELSE CleanChars(t, issues, scene_id, ci, rules)

\* one chunk of the per-chunk pass (lines 189-216): the cleaned text, if it
\* is kept, and the issues appended for it
CleanOne(raw, scene_id, ci, rules) ==
    IF raw.k # "str"
    THEN [kept |-> << >>, issues |-> <<SubtitleIssue(scene_id, ci, "non_string")>>]
    ELSE CleanWords(sanitize_chunk_text(raw, rules),
                    IF ~rules.allow_emojis /\ raw.emoji
                    THEN <<SubtitleIssue(scene_id, ci, "emoji_removed")>> ELSE << >>,
                    scene_id, ci, rules)

CleanStep(acc, one) ==
    [cleaned |-> acc.cleaned \o one.kept, issues |-> acc.issues \o one.issues]

\* cleaned and issues after the first n chunks; issues0 are the issues of
\* the scenes before
RECURSIVE CleanChunks(_, _, _, _, _)
CleanChunks(chunks, n, scene_id, rules, issues0) ==
    IF n = 0 THEN [cleaned |-> << >>, issues |-> issues0]
    ELSE CleanStep(CleanChunks(chunks, n - 1, scene_id, rules, issues0),
                   CleanOne(chunks[n], scene_id, n - 1, rules))

\* merge a chunk of fewer than min_words words with the next one
RECURSIVE MergeShort(_, _, _, _, _, _)
MergeShort(cleaned, i, scene_id, rules, merged, issues) ==
    IF i > Len(cleaned) THEN [merged |-> merged, issues |-> issues]
    ELSE IF Len(cleaned[i].words) < rules.min_words /\ i + 1 <= Len(cleaned)
    THEN LET merged_text ==
                 enforce_word_count(
                     sanitize_chunk_text(Concat(cleaned[i], cleaned[i + 1]), rules), rules)
         IN  MergeShort(cleaned, i + 2, scene_id, rules, Append(merged, merged_text),
                        Append(issues, SubtitleIssue(scene_id, i - 1, "too_few_words")))
    ELSE MergeShort(cleaned, i + 1, scene_id, rules, Append(merged, cleaned[i]), issues)

\* STRICT: drop generic chunks and duplicates within the scene
RECURSIVE Dedupe(_, _, _, _, _, _, _)
Dedupe(merged, ci, scene_id, strict, seen, deduped, issues) ==
    IF ci > Len(merged) THEN [merged |-> deduped, issues |-> issues]
    ELSE LET t == merged[ci]
         IN  IF strict.ban_generic_chunks /\ IsGeneric(t)
             THEN Dedupe(merged, ci + 1, scene_id, strict, seen, deduped,
                         Append(issues, SubtitleIssue(scene_id, ci - 1, "generic_banned")))
             ELSE IF strict.max_same_chunk_duplicates_scene = 0 /\ t.words \in seen
             THEN Dedupe(merged, ci + 1, scene_id, strict, seen, deduped,
                         Append(issues,
                                SubtitleIssue(scene_id, ci - 1, "duplicate_in_scene")))
             ELSE Dedupe(merged, ci + 1, scene_id, strict, seen \cup {t.words},
                         Append(deduped, t), issues)

\* all_words += _tokenize_upper(t) for t in merged
RECURSIVE AllWords(_)
AllWords(merged) ==
    IF merged = << >> THEN << >> ELSE Head(merged).words \o AllWords(Tail(merged))

\* repeat_ratio = 1.0 - len(uniq) / len(all_words) > max_repeat_ratio_scene
HighRepetition(merged, strict) ==
    LET all_words == AllWords(merged)
        n == Len(all_words)
        u == Cardinality({all_words[i] : i \in 1..n})
    IN  n > 0 /\ (n - u) * 100 > strict.max_repeat_ratio_pct * n

\* the final clamp: sanitize, enforce the word count, drop what is empty
RECURSIVE FinalClamp(_, _)
FinalClamp(merged, rules) ==
    IF merged = << >> THEN << >>
    ELSE LET t2 == enforce_word_count(sanitize_chunk_text(Head(merged), rules), rules)
         IN  (IF t2.words = << >> THEN << >> ELSE <<t2>>) \o FinalClamp(Tail(merged), rules)


\* int(scene.get("scene_id", fallback)), fallback when that raises
_safe_scene_id(scene, fallback) ==
    IF scene.scene_id.k = "int" THEN scene.scene_id.n ELSE fallback

\* prev_last_chunk is None before the first processed scene
NoChunk == [k |-> "none", words |-> << >>, lower |-> FALSE, emoji |-> FALSE]

\* merged[: max(0, (rules.max_words and 10))]
KeepAfterFallback(merged, rules) ==
    SubSeq(merged, 1, Min(Len(merged), IF rules.max_words # 0 THEN 10 ELSE 0))

\* the STRICT block of one scene, after the merge pass, as a chain of steps;
\* raised says that .strip() was called on a role or an anchor that is no str

\* the evidence requirement (lines 270-280)
StrictEvidence(scene, scene_id, merged, issues, rules, strict) ==
    IF FieldRaises(scene.narrative_role)
    THEN [raised |-> TRUE, merged |-> merged, issues |-> issues]
    ELSE IF ~(/\ RoleOf(scene) \in strict.require_evidence_in_roles
              /\ ~ \E i \in DOMAIN merged : _has_evidence_token(merged[i]))
    THEN [raised |-> FALSE, merged |-> merged, issues |-> issues]
    ELSE IF ~strict.allow_fallback
    THEN [raised |-> FALSE, merged |-> merged,
          issues |-> Append(issues, SubtitleIssue(scene_id, -1, "missing_evidence_token"))]
    ELSE IF FieldRaises(scene.visual_anchor)
    THEN [raised |-> TRUE, merged |-> merged, issues |-> issues]
    ELSE [raised |-> FALSE,
          merged |-> <<_fallback_chunk_for_scene(scene, rules)>>
                        \o KeepAfterFallback(merged, rules),
          issues |-> Append(issues, SubtitleIssue(scene_id, -1, "missing_evidence_token"))]

\* the repetition ratio (lines 260-268)
StrictRepetition(scene, scene_id, merged, issues, rules, strict) ==
    StrictEvidence(scene, scene_id, merged,
                   IF HighRepetition(merged, strict)
                   THEN Append(issues, SubtitleIssue(scene_id, -1, "high_repetition"))
                   ELSE issues,
                   rules, strict)

\* the duplicate across consecutive scenes (lines 254-258); d is what Dedupe
\* returned
StrictConsecutive(scene, scene_id, d, rules, strict, prev_last_chunk) ==
    IF /\ strict.avoid_consecutive_duplicate_chunks
       /\ prev_last_chunk.k = "str" /\ prev_last_chunk.words # << >>
       /\ d.merged # << >>
       /\ d.merged[1].words = prev_last_chunk.words
    THEN StrictRepetition(scene, scene_id, Tail(d.merged),
                          Append(d.issues,
                                 SubtitleIssue(scene_id, 0, "duplicate_consecutive")),
                          rules, strict)
    ELSE StrictRepetition(scene, scene_id, d.merged, d.issues, rules, strict)

StrictPass(scene, scene_id, m, rules, strict, prev_last_chunk) ==
    IF strict.enabled
    THEN StrictConsecutive(scene, scene_id,
                           Dedupe(m.merged, 1, scene_id, strict, {}, << >>, m.issues),
                           rules, strict, prev_last_chunk)
    ELSE [raised |-> FALSE, merged |-> m.merged, issues |-> m.issues]

\* a scene the loop skips: no dict, or subtitle_chunks missing, empty or no list
Skipped(scene) ==
    \/ ~scene.is_dict
    \/ scene.subtitle_chunks.k # "list"
    \/ scene.subtitle_chunks.items = << >>

\* lines 290-291: the scene gets final_chunks, and prev_last_chunk its last
\* chunk if there is one
SceneDone(scene, final_chunks, issues, prev_last_chunk) ==
    [raised |-> FALSE,
     scene |-> [scene EXCEPT !.subtitle_chunks = [k |-> "list", items |-> final_chunks]],
     issues |-> issues,
     prev_last_chunk |-> IF final_chunks # << >> THEN Last(final_chunks)
                         ELSE prev_last_chunk]

\* the final clamp of lines 282-288 on what the STRICT block returned; a
\* scene that raised is left as it was
SceneFinal(scene, s, rules, prev_last_chunk) ==
    IF s.raised
    THEN [raised |-> TRUE, scene |-> scene, issues |-> s.issues,
          prev_last_chunk |-> prev_last_chunk]
    ELSE SceneDone(scene, FinalClamp(s.merged, rules), s.issues, prev_last_chunk)

SceneStrict(scene, scene_id, m, rules, strict, prev_last_chunk) ==
    SceneFinal(scene, StrictPass(scene, scene_id, m, rules, strict, prev_last_chunk),
               rules, prev_last_chunk)

SceneMerge(scene, scene_id, c, rules, strict, prev_last_chunk) ==
    SceneStrict(scene, scene_id,
                MergeShort(c.cleaned, 1, scene_id, rules, << >>, c.issues),
                rules, strict, prev_last_chunk)

SceneClean(scene, scene_id, rules, strict, prev_last_chunk, issues0) ==
    SceneMerge(scene, scene_id,
               CleanChunks(scene.subtitle_chunks.items, Len(scene.subtitle_chunks.items),
                           scene_id, rules, issues0),
               rules, strict, prev_last_chunk)

\* the body of the scene loop for scene number si (0-based)
ProcessScene(scene, si, rules, strict, prev_last_chunk, issues0) ==
    SceneClean(scene, _safe_scene_id(scene, si + 1), rules, strict, prev_last_chunk,
               issues0)

\* the state of the loop after a processed scene: r is what ProcessScene
\* returned for scene number n (1-based)
LoopUpdate(st, n, r) ==
    [raised |-> r.raised,
     scenes |-> [st.scenes EXCEPT ![n] = r.scene],
     issues |-> r.issues,
     prev_last_chunk |-> r.prev_last_chunk]

\* one round of for si, scene in enumerate(scenes); nothing more happens
\* once a scene has raised
LoopStep(st, n, rules, strict) ==
    IF st.raised \/ Skipped(st.scenes[n]) THEN st
    ELSE LoopUpdate(st, n,
                    ProcessScene(st.scenes[n], n - 1, rules, strict,
                                 st.prev_last_chunk, st.issues))

\* the state of the loop after the first n scenes
RECURSIVE SceneLoop(_, _, _, _)
SceneLoop(scenes, n, rules, strict) ==
    IF n = 0
    THEN [raised |-> FALSE, scenes |-> scenes, issues |-> << >>,
          prev_last_chunk |-> NoChunk]
    ELSE LoopStep(SceneLoop(scenes, n - 1, rules, strict), n, rules, strict)

\* what the call returned: the scenes after the call, the report's issues
\* (ok is the constant True), or raised when the call ends in an exception
CallResult(r) ==
    [raised |-> r.raised, ok |-> ~r.raised, scenes |-> r.scenes, issues |-> r.issues]

validate_and_sanitize_subtitle_chunks(scenes, rules, strict) ==
    CallResult(SceneLoop(scenes, Len(scenes), rules, strict))


\* -------------------------------- specification: the subtitle validator

\* validate_and_sanitize_subtitle_chunks as a function of data["scenes"],
\* rules and strict: one invocation per behaviour.  The scenes are mutated
\* in place, so the action rewrites data.
MaxSceneChunks == 2

\* chunks: a banned generic phrase, a phrase with evidence terms, a single
\* word, 39 characters in four words, six words, lower case with an emoji,
\* the empty string, and a value that is no str
ValidatorChunks ==
    {Str(<<"ISSO", "MUDA", "TUDO">>, FALSE, FALSE),
     Str(<<"FITA", "OFICIAL">>, FALSE, FALSE),
     Str(<<"OLA">>, FALSE, FALSE),
     Str(<<"ISSO", "NÃO", "BATE">>, FALSE, FALSE),
     Str(<<"EVIDÊNCIA", "EVIDÊNCIA", "EVIDÊNCIA", "EVIDÊNCIA">>, FALSE, FALSE),
     Str(<<"OLA", "MUNDO", "ISSO", "MUDA", "TUDO", "BATE">>, FALSE, FALSE),
     Str(<<"OLA", "MUNDO">>, TRUE, TRUE),
     Str(<< >>, FALSE, FALSE),
     NonStr}

\* scene.get("subtitle_chunks"): a list, missing, or a value that is no list
ChunkFields ==
    {[k |-> "list", items |-> cs] : cs \in SeqsUpTo(ValidatorChunks, MaxSceneChunks)}
    \cup {[k |-> "missing", items |-> << >>], [k |-> "other", items |-> << >>]}

\* scene_id: missing, an int, or a value int() rejects
SceneIds ==
    {[k |-> "missing", n |-> 0], [k |-> "int", n |-> 7], [k |-> "junk", n |-> 0]}

StrField(v, doc) == [k |-> "str", v |-> v, doc |-> doc]
MissingField == [k |-> "missing", v |-> "", doc |-> FALSE]
OtherField == [k |-> "other", v |-> "", doc |-> FALSE]

\* narrative_role and visual_anchor, as <<role, anchor>>
RoleAnchors ==
    {<<MissingField, MissingField>>,
     <<StrField("evidencia", FALSE), MissingField>>,
     <<StrField("evidencia", FALSE), StrField("", TRUE)>>,
     <<StrField("contradicao", FALSE), MissingField>>,
     <<StrField("evidencia", FALSE), OtherField>>,
     <<OtherField, MissingField>>}

SceneDict(scene_id, chunks, ra) ==
    [is_dict |-> TRUE, scene_id |-> scene_id, subtitle_chunks |-> chunks,
     narrative_role |-> ra[1], visual_anchor |-> ra[2]]

\* an element of scenes that is no dict
NotDict ==
    [is_dict |-> FALSE, scene_id |-> [k |-> "missing", n |-> 0],
     subtitle_chunks |-> [k |-> "missing", items |-> << >>],
     narrative_role |-> MissingField, visual_anchor |-> MissingField]

\* every chunk field with every role and anchor under the positional id, and
\* the scenes of one chunk under every kind of scene_id
ValidatorScenes ==
    {NotDict}
    \cup {SceneDict([k |-> "missing", n |-> 0], cs, ra) :
              cs \in ChunkFields, ra \in RoleAnchors}
    \cup {SceneDict(id, [k |-> "list", items |-> <<c>>], <<MissingField, MissingField>>) :
              id \in SceneIds, c \in ValidatorChunks}

\* what comes before the scene under test: nothing, an element that is no
\* dict, a scene without chunks, a scene that ends with FITA OFICIAL, or an
\* evidence scene whose only chunk is a generic phrase
ScenePrefixes ==
    {<< >>,
     <<NotDict>>,
     <<SceneDict([k |-> "missing", n |-> 0], [k |-> "missing", items |-> << >>],
                 <<MissingField, MissingField>>)>>,
     <<SceneDict([k |-> "missing", n |-> 0],
                 [k |-> "list", items |-> <<Str(<<"FITA", "OFICIAL">>, FALSE, FALSE)>>],
                 <<MissingField, MissingField>>)>>,
     <<SceneDict([k |-> "missing", n |-> 0],
                 [k |-> "list", items |-> <<Str(<<"ISSO", "MUDA", "TUDO">>, FALSE, FALSE)>>],
                 <<StrField("evidencia", FALSE), MissingField>>)>>}

ValidatorSceneLists == {p \o <<s>> : p \in ScenePrefixes, s \in ValidatorScenes}

\* the default rules, and rules with a tight character limit
ValidatorRules == {SubtitleRules, [SubtitleRules EXCEPT !.max_chars = 10]}

\* non-strict (the default), strict, strict without fallback
ValidatorStricts ==
    {StrictRules,
     [StrictRules EXCEPT !.enabled = TRUE],
     [StrictRules EXCEPT !.enabled = TRUE, !.allow_fallback = FALSE]}

\* A caller invokes validate_and_sanitize_subtitle_chunks(data, video_type,
\* rules, strict); what it leaves in data["scenes"] is visible afterwards
\* whether it returns or raises.
ValidateCall ==
    /\ Len(calls) < 1
    /\ LET out == validate_and_sanitize_subtitle_chunks(data.scenes, data.rules,
                                                        data.strict)
       IN  /\ calls' = Append(calls, [fn |-> "validate_and_sanitize_subtitle_chunks",
                                      scenes |-> data.scenes, rules |-> data.rules,
                                      strict |-> data.strict, out |-> out])
           /\ data' = [data EXCEPT !.scenes = out.scenes]
    /\ UNCHANGED <<env, duration_sec, audio, cfgObj>>

InitValidator ==
    /\ env = NoEnv
    /\ data \in {[scenes |-> ss, rules |-> r, strict |-> st] :
                    ss \in ValidatorSceneLists, r \in ValidatorRules,
                    st \in ValidatorStricts}
    /\ duration_sec = Sec(10)
    /\ audio = Audio(<< >>, << >>, Sec(10))
    /\ cfgObj = TimingConfig
    /\ calls = << >>

NextValidator == ValidateCall

SpecValidator == InitValidator /\ [][NextValidator]_vars


\* ---------------------------------------- claims on the subtitle validator

ValidateCalls == {c \in Calls : c.fn = "validate_and_sanitize_subtitle_chunks"}

\* C18: validate_and_sanitize_subtitle_chunks never aborts: for every input,
\* non-dict scenes, non-string chunks, missing fields and non-string role or
\* scene_id values included, in strict and in non-strict mode, it returns a
\* report with ok = true instead of raising.
C18_NeverRaises ==
    \A c \in ValidateCalls : ~c.out.raised /\ c.out.ok

\* the scenes of a call whose chunk list the loop processed, by position
Processed(c) == {i \in DOMAIN c.scenes : ~Skipped(c.scenes[i])}

\* C19: in strict mode with fallback allowed, after a validation that
\* returned, every processed scene whose narrative role requires evidence
\* vocabulary has at least one chunk with a term of _EVIDENCE_TOKENS.
C19_EvidencePresent ==
    \A c \in ValidateCalls :
        (c.strict.enabled /\ c.strict.allow_fallback /\ ~c.out.raised) =>
            \A i \in Processed(c) :
                RoleOf(c.scenes[i]) \in c.strict.require_evidence_in_roles =>
                    \E j \in DOMAIN c.out.scenes[i].subtitle_chunks.items :
                        _has_evidence_token(c.out.scenes[i].subtitle_chunks.items[j])

\* the chunks of a scene as a sequence of word lists; a chunk that is no str
\* differs from every text
ChunkTexts(scene) ==
    [j \in 1..Len(scene.subtitle_chunks.items) |->
        <<scene.subtitle_chunks.items[j].k, scene.subtitle_chunks.items[j].words>>]

\* C20: every corrective change to a scene's chunks is recorded: when the
\* chunks of a processed scene come back with a chunk removed, truncated,
\* merged or substituted (a change of letter case alone does not count), the
\* report holds an issue with the id of that scene.
C20_ChangesRecorded ==
    \A c \in ValidateCalls :
        ~c.out.raised =>
            \A i \in Processed(c) :
                ChunkTexts(c.scenes[i]) # ChunkTexts(c.out.scenes[i]) =>
                    \E k \in DOMAIN c.out.issues :
                        c.out.issues[k].scene_id = _safe_scene_id(c.scenes[i], i)


\* C21: after a validation that returned, strict or not, every chunk left in
\* a processed scene's subtitle_chunks is non-empty and has at most max_words
\* words and at most max_chars characters, merged chunks and inserted
\* fallback chunks included.
C21_ChunksWithinLimits ==
    \A c \in ValidateCalls :
        ~c.out.raised =>
            \A i \in Processed(c) :
                \A j \in DOMAIN c.out.scenes[i].subtitle_chunks.items :
                    LET t == c.out.scenes[i].subtitle_chunks.items[j]
                    IN  /\ t.k = "str" /\ t.words # << >>
                        /\ Len(t.words) <= c.rules.max_words
                        /\ JoinedLen(t.words) <= c.rules.max_chars

\* a scene with a chunk longer than max_chars and a merge, left with chunks
C21_Witness ==
    \E c \in ValidateCalls : \E i \in Processed(c) :
          /\ ~c.out.raised
          /\ \E j \in DOMAIN c.scenes[i].subtitle_chunks.items :
                JoinedLen(c.scenes[i].subtitle_chunks.items[j].words) > c.rules.max_chars
          /\ \E k \in DOMAIN c.out.issues : c.out.issues[k].code = "too_few_words"
          /\ c.out.scenes[i].subtitle_chunks.items # << >>



\* ------------------------------------ specification: the settings read

\* One run of the pipeline up to the point where every setting of the
\* subtitle core has been read: run_auto_short / run_auto_long read
\* AO_SUB_MAX_CHARS for the chunker (for a script that has a narration),
\* build_chunk_timeline reads the rest.

\* the default of AO_SUB_MAX_CHARS in run_auto_short and in run_auto_long
DefaultMaxChars(video_type) == IF video_type = "long" THEN 32 ELSE 30

\* int(os.getenv("AO_SUB_MAX_CHARS", default)): int() raises on a string
\* that is no integer literal, the empty string included
SubMaxChars(v, video_type) ==
    [raised |-> v.k \notin {"unset", "int"},
     value |-> IF v.k = "int" THEN v.n ELSE DefaultMaxChars(video_type)]

\* the settings a run ends up with, or raised when the run ends in the
\* ValueError of int()
ReadSettings(e, video_type) ==
    [raised |-> SubMaxChars(e.AO_SUB_MAX_CHARS, video_type).raised,
     max_chars |-> SubMaxChars(e.AO_SUB_MAX_CHARS, video_type).value,
     cfg |-> EnvOverrides(TimingConfig, e)]

RunAuto(video_type) ==
    /\ Len(calls) < 1
    /\ calls' = Append(calls, [fn |-> "run_auto", video_type |-> video_type,
                               env |-> env, out |-> ReadSettings(env, video_type)])
    /\ UNCHANGED <<env, data, duration_sec, audio, cfgObj>>

run_auto_short == RunAuto("short")

run_auto_long == RunAuto("long")

\* values of an integer setting and of a decimal setting: unset, empty, not
\* a number, a decimal literal, an integer literal
IntSettingValues == {Unset, EnvEmpty, EnvJunk, EnvFloat(Ms(1500)), EnvInt(300)}
FloatSettingValues == {Unset, EnvEmpty, EnvJunk, EnvFloat(Ms(1500))}

\* the offset and the max gap take the same value, and so do the short and
\* the long profile
SettingEnvs ==
    {[NoEnv EXCEPT !.AO_SUB_MAX_CHARS = mc, !.AO_SUB_ANTICIPATION_MS = an,
                   !.AO_SUB_OFFSET_MS = of, !.AO_SUB_MAX_GAP_MS = of,
                   !.AO_SUB_SHORT_MIN = mn, !.AO_SUB_LONG_MIN = mn,
                   !.AO_SUB_SHORT_MAX = mx, !.AO_SUB_LONG_MAX = mx] :
        mc \in IntSettingValues, an \in IntSettingValues, of \in IntSettingValues,
        mn \in FloatSettingValues, mx \in FloatSettingValues}

InitSettings ==
    /\ env \in SettingEnvs
    /\ data = Data(<< >>, << >>, << >>, << >>)
    /\ duration_sec = Sec(10)
    /\ audio = Audio(<< >>, << >>, Sec(10))
    /\ cfgObj = TimingConfig
    /\ calls = << >>

NextSettings == run_auto_short \/ run_auto_long

SpecSettings == InitSettings /\ [][NextSettings]_vars

\* ---------------------------------------------- claims on the settings

SettingCalls == {c \in Calls : c.fn = "run_auto"}

\* a value that is empty or not a number; for an integer setting a decimal
\* literal does not parse either
Unparsable(v, integer) == v.k \in {"empty", "junk"} \/ (integer /\ v.k = "float")

\* C22: every setting of the core (max characters per chunk, min and max
\* chunk duration of both profiles, anticipation, global offset, max gap)
\* has its default when its environment value is empty or unparsable, and
\* the run does not fail because of such a value.
C22_DefaultsOnBadValues ==
    \A c \in SettingCalls :
        /\ ~c.out.raised
        /\ Unparsable(c.env.AO_SUB_MAX_CHARS, TRUE) =>
              c.out.max_chars = DefaultMaxChars(c.video_type)
        /\ Unparsable(c.env.AO_SUB_ANTICIPATION_MS, TRUE) =>
              c.out.cfg.anticipation_ms = TimingConfig.anticipation_ms
        /\ Unparsable(c.env.AO_SUB_OFFSET_MS, TRUE) =>
              c.out.cfg.offset_ms = TimingConfig.offset_ms
        /\ Unparsable(c.env.AO_SUB_MAX_GAP_MS, TRUE) =>
              c.out.cfg.max_gap_ms = TimingConfig.max_gap_ms
        /\ Unparsable(c.env.AO_SUB_SHORT_MIN, FALSE) =>
              c.out.cfg.short_min_chunk = TimingConfig.short_min_chunk
        /\ Unparsable(c.env.AO_SUB_SHORT_MAX, FALSE) =>
              c.out.cfg.short_max_chunk = TimingConfig.short_max_chunk
        /\ Unparsable(c.env.AO_SUB_LONG_MIN, FALSE) =>
              c.out.cfg.long_min_chunk = TimingConfig.long_min_chunk
        /\ Unparsable(c.env.AO_SUB_LONG_MAX, FALSE) =>
              c.out.cfg.long_max_chunk = TimingConfig.long_max_chunk


\* -------------------------------------- more claims on the timeline builder

TimelineCalls == {c \in Calls : c.fn = "build_chunk_timeline"}

C25_PairsFollowingEnd ==
    \A c \in DetectCalls : \A i \in DOMAIN c.silences :
        /\ c.silences[i].end >= c.silences[i].start
        /\ Len(c.ends) > Len(c.starts) =>
              c.silences[i].end = c.ends[i + 1]


\* ----------------------------------------- more claims on the ASS writer

\* the \k durations of an event added up, in centiseconds
KSum(ktext) == SumSeq([i \in DOMAIN ktext |-> ktext[i].k])

\* the timeline entry the k-th event of a call was written from
EventItem(c, k) == c.timeline.entries[TextPositions(c.timeline.entries, 1)[k]]

ItemStart(item) == ItemGet(item, "start", 0)

ItemEnd(item) == ItemGet(item, "end", ItemStart(item) + Ms(500))

\* C26: in every event written by write_karaoke_ass the \k durations of the
\* words add up to no more than the displayed duration end - start of the
\* entry the event was written from.
C26_KaraokeWithinWindow ==
    \A c \in AssCalls : \A k \in DOMAIN c.out.events :
        KSum(c.out.events[k].ktext) * Ms(10)
            <= ItemEnd(EventItem(c, k)) - ItemStart(EventItem(c, k))


\* the time a stamp denotes, in centiseconds
StampCs(stamp) == ((stamp.h * 60 + stamp.m) * 60 + stamp.s) * 100 + stamp.cs

\* a well-formed stamp of t rounded to the nearest centisecond
StampOk(stamp, t) ==
    /\ stamp.h >= 0
    /\ stamp.m \in 0..59
    /\ stamp.s \in 0..59
    /\ stamp.cs \in 0..99
    /\ Abs(StampCs(stamp) * Ms(10) - t) <= Ms(5)

StampsOk(e, st, en) ==
    /\ st >= 0 => StampOk(e.start, st)
    /\ en >= 0 => StampOk(e.end, en)
    /\ (0 <= st /\ st <= en) => StampCs(e.start) <= StampCs(e.end)

CueCalls == {c \in Calls : c.fn = "write_ass"}

\* the stamps of write_karaoke_ass
RendererStamps ==
    \A c \in AssCalls : \A k \in DOMAIN c.out.events :
        StampsOk(c.out.events[k], ItemStart(EventItem(c, k)), ItemEnd(EventItem(c, k)))

\* the stamps of write_ass
CueStamps ==
    \A c \in CueCalls : \A k \in DOMAIN c.out :
        StampsOk(c.out[k], c.timeline.entries[k].start, c.timeline.entries[k].end)

\* C27: for every time t >= 0 the stamp written has minutes and seconds in
\* 0..59 and centiseconds in 0..99, denotes t rounded to the nearest
\* centisecond, and start <= end gives stamp(start) <= stamp(end); in the
\* events of write_karaoke_ass and in those of write_ass.
C27_WellFormedStamps == RendererStamps /\ CueStamps


\* ------------------------------------------ more claims on the validator

\* the chunks a scene has after the call, as word lists (normalized, upper case)
OutWords(c, i) ==
    [j \in DOMAIN c.out.scenes[i].subtitle_chunks.items |->
        c.out.scenes[i].subtitle_chunks.items[j].words]

\* C28: in strict mode, after a validation that returned, no processed scene
\* has two identical chunks (compared normalized and in upper case), whatever
\* its role and whether or not a fallback chunk was inserted.
C28_NoDuplicateInScene ==
    \A c \in ValidateCalls :
        (c.strict.enabled /\ ~c.out.raised) =>
            \A i \in Processed(c) : \A j, k \in DOMAIN OutWords(c, i) :
                j # k => OutWords(c, i)[j] # OutWords(c, i)[k]

\* the last processed scene before scene i that has chunks after the call, or 0
PrevWithChunks(c, i) ==
    LET before == {p \in Processed(c) : p < i /\ OutWords(c, p) # << >>}
    IN  IF before = {} THEN 0 ELSE CHOOSE p \in before : \A q \in before : q <= p

\* C29: in strict mode, after a validation that returned, the first chunk of
\* a processed scene is never identical (normalized, upper case) to the last
\* chunk of the nearest preceding scene that has chunks.
C29_NoConsecutiveDuplicate ==
    \A c \in ValidateCalls :
        (c.strict.enabled /\ ~c.out.raised) =>
            \A i \in Processed(c) :
                (OutWords(c, i) # << >> /\ PrevWithChunks(c, i) # 0) =>
                    OutWords(c, i)[1] # Last(OutWords(c, PrevWithChunks(c, i)))


\* ------------------------------------------- subtitles from the script

\* An element of scenes is a dict with its subtitle_chunks, or a value that is
\* no dict.  A chunk is a string, the sequence of its characters.
ScriptScene(chunks) == [is_dict |-> TRUE, subtitle_chunks |-> chunks]

NotScene == [is_dict |-> FALSE, subtitle_chunks |-> << >>]

\* the placeholder of a scene without text, the one character U+2026
Filler == <<"...">>

\* os.getenv("AO_SUB_FILLER", "0").strip() in {"1", "true", "True"}
filler_enabled(e) == EnvFlag(e.AO_SUB_FILLER, FALSE)

\* math.ceil(a / b) for a >= 0, b > 0
CeilDiv(a, b) == (a + b - 1) \div b

\* per = max(1, ceil(len(chunks) / n)) if chunks else 0, n = max(1, len(scenes))
PerScene(chunks, scenes) ==
    IF chunks = << >> THEN 0 ELSE Max(1, CeilDiv(Len(chunks), Max(1, Len(scenes))))

\* the loop over scenes from position i, idx chunks handed out so far
RECURSIVE AssignChunks(_, _, _, _, _, _)
AssignChunks(scenes, i, idx, chunks, per, filler) ==
    IF i > Len(scenes) THEN << >>
    ELSE IF ~scenes[i].is_dict
    THEN <<scenes[i]>> \o AssignChunks(scenes, i + 1, idx, chunks, per, filler)
    ELSE IF per > 0 /\ idx < Len(chunks)
    THEN <<ScriptScene(SubSeq(chunks, idx + 1, Min(idx + per, Len(chunks))))>>
         \o AssignChunks(scenes, i + 1, idx + per, chunks, per, filler)
    ELSE <<ScriptScene(IF filler THEN <<Filler>> ELSE << >>)>>
         \o AssignChunks(scenes, i + 1, idx, chunks, per, filler)

AssignAll(scenes, chunks, filler) ==
    AssignChunks(scenes, 1, 0, chunks, PerScene(chunks, scenes), filler)

\* the scenes after the call; an empty list is returned as it is
apply_subtitles_from_script(scenes, narration_text, max_chars, e) ==
    IF scenes = << >> THEN scenes
    ELSE AssignAll(scenes, split_into_chunks(narration_text, max_chars),
                    filler_enabled(e))

\* ------------------------------ specification: subtitles from the script

\* apply_subtitles_from_script as a function of the scenes, the narration,
\* max_chars and AO_SUB_FILLER: one invocation per behaviour.
ScriptChars == {"a", " ", "."}

ScriptNarrations == SeqsUpTo(ScriptChars, MaxText)

\* scenes that hold chunks of an earlier run or none, alone, in lists longer
\* than the narration has chunks, and next to an element that is no dict
ScriptSceneLists ==
    {<< >>,
     <<ScriptScene(<< >>)>>,
     <<ScriptScene(<<<<"a">>>>), ScriptScene(<< >>)>>,
     <<ScriptScene(<< >>), ScriptScene(<< >>), ScriptScene(<< >>), ScriptScene(<< >>)>>,
     <<NotScene, ScriptScene(<< >>)>>,
     <<ScriptScene(<< >>), NotScene, ScriptScene(<< >>)>>}

FillerEnvs == {NoEnv, [NoEnv EXCEPT !.AO_SUB_FILLER = EnvInt(1)]}

\* A caller invokes apply_subtitles_from_script(scenes, narration_text,
\* max_chars); the scenes are updated in place.
ApplySubtitlesCall(max_chars) ==
    /\ Len(calls) < 1
    /\ LET out == apply_subtitles_from_script(data.scenes, data.narration_text,
                                              max_chars, env)
       IN  /\ calls' = Append(calls,
                              [fn |-> "apply_subtitles_from_script",
                               scenes |-> data.scenes, text |-> data.narration_text,
                               max_chars |-> max_chars, env |-> env, out |-> out])
           /\ data' = [data EXCEPT !.scenes = out]
    /\ UNCHANGED <<env, duration_sec, audio, cfgObj>>

InitScript ==
    /\ env \in FillerEnvs
    /\ data \in {[narration_text |-> t, scenes |-> s] :
                    t \in ScriptNarrations, s \in ScriptSceneLists}
    /\ duration_sec = Sec(10)
    /\ audio = Audio(<< >>, << >>, Sec(10))
    /\ cfgObj = TimingConfig
    /\ calls = << >>

NextScript == \E max_chars \in ChunkLimits : ApplySubtitlesCall(max_chars)

SpecScript == InitScript /\ [][NextScript]_vars

\* ------------------------------------ claims on subtitles from the script

ApplyCalls == {c \in Calls : c.fn = "apply_subtitles_from_script"}

\* the chunks of the scenes, dicts only, one after the other
RECURSIVE SceneChunks(_)
SceneChunks(scenes) ==
    IF scenes = << >> THEN << >>
    ELSE (IF Head(scenes).is_dict THEN Head(scenes).subtitle_chunks ELSE << >>)
         \o SceneChunks(Tail(scenes))

\* C30: for a non-empty scene list and AO_SUB_FILLER off, the subtitle_chunks
\* of the scenes after apply_subtitles_from_script, concatenated in scene
\* order, are exactly split_into_chunks(narration_text, max_chars): no chunk
\* is lost, repeated or reordered, and a scene that receives no chunk has [].
C30_NothingLost ==
    \A c \in ApplyCalls :
        (c.scenes # << >> /\ ~filler_enabled(c.env)) =>
            SceneChunks(c.out) = split_into_chunks(c.text, c.max_chars)

====
